---- MODULE Spec2Model ----
(***************************************************************************)
(* A model of the stateful pieces of the qairoz platform:                 *)
(*   - the OTPService of the frontend (an in-memory Map of one-time       *)
(*     passwords with an expiry timestamp and an attempt counter) and the *)
(*     mount effect of the EmailOTPVerification component,                *)
(*   - the Express backend's in-memory colleges / students arrays with    *)
(*     the POST /api/students upsert, DELETE /api/clear and GET           *)
(*     /api/stats handlers,                                               *)
(*   - the backend's S3 endpoints, and                                    *)
(*   - the two EmailService classes of the frontend.                      *)
(* Spec is the OTP service, SpecBackend the REST backend, SpecS3 the      *)
(* backend with its S3 export, SpecEmail the email service.               *)
(***************************************************************************)
EXTENDS Integers, Sequences, FiniteSets, TLC

(***************************************************************************)
(* Bounds of the model                                                     *)
(***************************************************************************)
\* the clock runs over  p * OTP_EXPIRY_TIME + m  with p <= MaxPeriods, m <= MaxMillis
MaxPeriods == 1
MaxMillis == 1
\* sendEmailOTP calls of one email that may be awaiting emailService.sendOTP
MaxPending == 1
\* Math.random() returns k / RandDenom for a sampled numerator k
RandDenom == 1000
\* the server's clock runs over 0..MaxClock
MaxClock == 1

(***************************************************************************)
(* OTPService: constants and pure helpers                                  *)
(***************************************************************************)
OTP_EXPIRY_TIME == 5 * 60 * 1000
MAX_ATTEMPTS == 3

Emails == {"a@x", "b@x"}

\* Number.prototype.toString for a non-negative integer: its decimal digits
RECURSIVE Digits(_)
Digits(n) == IF n < 10 THEN <<n>> ELSE Append(Digits(n \div 10), n % 10)

toString(n) == Digits(n)

\* the sampled numerators of Math.random(): the smallest and the largest below 1
RandNums == {0, RandDenom - 1}

\* a plausible slip: scaling the random number over the whole 0..999999 range
generateOTP_range(k) == toString((k * 1000000) \div RandDenom)

\* Math.floor(100000 + Math.random() * 900000).toString(), Math.random() = k/RandDenom
generateOTP(k) == toString(100000 + ((k * 900000) \div RandDenom))

\* the strings a caller may type: every code that can be issued, and a wrong one
WrongCode == <<0, 0, 0, 0, 0, 0>>
Inputs == {generateOTP(k) : k \in RandNums} \cup {WrongCode}

\* the time that may pass between two Date.now() reads of one call
Elapsed == {0, 1}
\* the time that may pass between two calls
Steps == {1, OTP_EXPIRY_TIME}

InBounds(t) == /\ t \div OTP_EXPIRY_TIME <= MaxPeriods
               /\ t % OTP_EXPIRY_TIME <= MaxMillis

Restrict(m, S) == [x \in S |-> m[x]]

\* a plausible slip: a second of grace after expiresAt
isExpired_grace(t, otp) == t > otp.expiresAt + 1000

\* the test `now > otp.expiresAt` of cleanupExpiredOTPs and verifyEmailOTP
isExpired(t, otp) == t > otp.expiresAt

\* a plausible slip: an entry is also removed at its expiresAt
cleanupExpiredOTPs_eager(m, t) ==
    Restrict(m, {key \in DOMAIN m : t < m[key].expiresAt})

\* cleanupExpiredOTPs() with Date.now() = t: the map it leaves
cleanupExpiredOTPs(m, t) == Restrict(m, {key \in DOMAIN m : ~isExpired(t, m[key])})

clearOTP(m, email) == Restrict(m, DOMAIN m \ {email})

\* the object literal stored by sendEmailOTP
newOTPData(code, email, t) ==
    [code |-> code, email |-> email, expiresAt |-> t + OTP_EXPIRY_TIME, attempts |-> 0]

mapSet(m, key, v) == [x \in DOMAIN m \cup {key} |-> IF x = key THEN v ELSE m[x]]

\* a plausible slip: an entry that is still in the map is reused
storeFresh_reuse(m, email, code, t) ==
    IF email \in DOMAIN m THEN m ELSE mapSet(m, email, newOTPData(code, email, t))

\* clearOTP(email) followed by otps.set(email, {...}) in sendEmailOTP
storeFresh(m, email, code, t) ==
    mapSet(clearOTP(m, email), email, newOTPData(code, email, t))

Msg(text, n) == [text |-> text, n |-> n]
MsgNone == Msg("", 0)
MsgGenerated == Msg("OTP generated successfully", 0)
MsgGenFailed == Msg("Failed to generate OTP. Please try again.", 0)
MsgNotFound == Msg("OTP not found or expired. Please request a new one.", 0)
MsgExpired == Msg("OTP has expired. Please request a new one.", 0)
MsgTooMany == Msg("Too many attempts. Please request a new OTP.", 0)
MsgVerified == Msg("Email verified successfully!", 0)
MsgInvalid(n) == Msg("Invalid OTP. N attempts remaining.", n)

\* a plausible slip: an off-by-one in the attempt limit
isExhausted_gt(otp) == otp.attempts > MAX_ATTEMPTS

\* the test `otpData.attempts >= this.MAX_ATTEMPTS`
isExhausted(otp) == otp.attempts >= MAX_ATTEMPTS

\* a plausible slip: the code is accepted whenever it has the right length
codeMatches_len(otp, inputOTP) == Len(otp.code) = Len(inputOTP)

\* the test `otpData.code === inputOTP`
codeMatches(otp, inputOTP) == otp.code = inputOTP

\* a plausible slip: a verified entry is left in the map
consumeOTP_keep(m, email) == m

\* `this.otps.delete(email)` after a successful comparison
consumeOTP(m, email) == clearOTP(m, email)

\* a plausible slip: the attempt is counted twice
countAttempt_twice(otp) == [otp EXCEPT !.attempts = @ + 2]

\* otpData.attempts++
countAttempt(otp) == [otp EXCEPT !.attempts = @ + 1]

\* verifyEmailOTP(email, inputOTP) with Date.now() = t1 in the cleanup and t2
\* after the lookup: the map it leaves, its result, and whether it compared
verifyEmailOTP(m, email, inputOTP, t1, t2) ==
    LET m1 == cleanupExpiredOTPs(m, t1) IN
    IF email \notin DOMAIN m1
    THEN [otps |-> m1, success |-> FALSE, message |-> MsgNotFound, compared |-> FALSE]
    ELSE LET otpData == m1[email] IN
         IF isExpired(t2, otpData)
         THEN [otps |-> clearOTP(m1, email), success |-> FALSE,
               message |-> MsgExpired, compared |-> FALSE]
         ELSE IF isExhausted(otpData)
         THEN [otps |-> clearOTP(m1, email), success |-> FALSE,
               message |-> MsgTooMany, compared |-> FALSE]
         ELSE LET counted == countAttempt(otpData) IN
              IF codeMatches(counted, inputOTP)
              THEN [otps |-> consumeOTP(m1, email), success |-> TRUE,
                    message |-> MsgVerified, compared |-> TRUE]
              ELSE [otps |-> mapSet(m1, email, counted), success |-> FALSE,
                    message |-> MsgInvalid(MAX_ATTEMPTS - counted.attempts),
                    compared |-> TRUE]

\* a plausible slip: no new OTP is issued while the map holds one for the email
sendEmailOTP_active(m, email, k, t1, t2) ==
    LET m1 == cleanupExpiredOTPs(m, t1) IN
    IF email \in DOMAIN m1 THEN m1 ELSE storeFresh(m1, email, generateOTP(k), t2)

\* sendEmailOTP up to its await, with Math.random() = k/RandDenom and Date.now() = t1
\* in the cleanup and t2 when the expiry is computed: the map it leaves
sendEmailOTP(m, email, k, t1, t2) ==
    storeFresh(cleanupExpiredOTPs(m, t1), email, generateOTP(k), t2)

\* the catch block of sendEmailOTP: the map it leaves
sendEmailOTPFailed(m, email) == clearOTP(m, email)

\* a plausible slip: the entry is also deleted when the email was not sent
sendEmailOTPDone_strict(m, email, outcome) ==
    IF outcome # "sent"
    THEN [otps |-> sendEmailOTPFailed(m, email), success |-> FALSE, message |-> MsgGenFailed]
    ELSE [otps |-> m, success |-> TRUE, message |-> MsgGenerated]

\* sendEmailOTP after its await: emailService.sendOTP resolved true ("sent") or
\* false ("failed"), or it rejected ("threw"): the map it leaves and its result
sendEmailOTPDone(m, email, outcome) ==
    IF outcome = "threw"
    THEN [otps |-> sendEmailOTPFailed(m, email), success |-> FALSE, message |-> MsgGenFailed]
    ELSE [otps |-> m, success |-> TRUE, message |-> MsgGenerated]

\* Math.ceil(ms / 1000) for ms >= 0
CeilSeconds(ms) == (ms + 999) \div 1000

Max(a, b) == IF a >= b THEN a ELSE b

\* getOTPTimeRemaining(email): the map it leaves and the value returned
getOTPTimeRemaining(m, email, t1, t2) ==
    LET m1 == cleanupExpiredOTPs(m, t1) IN
    [otps |-> m1,
     value |-> IF email \notin DOMAIN m1 THEN 0
               ELSE CeilSeconds(Max(0, m1[email].expiresAt - t2))]

\* hasActiveOTP(email): the map it leaves and the value returned
hasActiveOTP(m, email, t1) ==
    LET m1 == cleanupExpiredOTPs(m, t1) IN
    [otps |-> m1, value |-> email \in DOMAIN m1]

\* a plausible slip: the component sends a fresh OTP on every mount
mountEffect_always(m, email, k, t1, t2) ==
    [otps |-> sendEmailOTP(hasActiveOTP(m, email, t1).otps, email, k, t2, t2),
     sent |-> TRUE, timeRemaining |-> 0]

\* the mount effect of EmailOTPVerification with Date.now() = t1 in hasActiveOTP
\* and t2 afterwards: the existing OTP is used and its remaining time read, or
\* sendOTP() calls sendEmailOTP; the map it leaves (up to the await), whether
\* it has called sendEmailOTP, and the time it displays
mountEffect(m, email, k, t1, t2) ==
    LET active == hasActiveOTP(m, email, t1) IN
    IF active.value
    THEN LET remaining == getOTPTimeRemaining(active.otps, email, t2, t2) IN
         [otps |-> remaining.otps, sent |-> FALSE, timeRemaining |-> remaining.value]
    ELSE [otps |-> sendEmailOTP(active.otps, email, k, t2, t2),
          sent |-> TRUE, timeRemaining |-> 0]

(***************************************************************************)
(* OTPService: state                                                       *)
(***************************************************************************)
VARIABLES
    otps,       \* the Map<string, OTPData>: a function on the emails that have an entry
    now,        \* Date.now()
    pending,    \* per email, the sendEmailOTP calls awaiting emailService.sendOTP
    issued,     \* history of the entries in the map: issue time, issued code,
                \* comparisons made against it
    consumed    \* history: emails whose OTP verified and that were not sent a new one

otpVars == <<otps, now, pending, issued, consumed>>

\* the backend's state
VARIABLES
    variant,    \* which generation of the handler the server runs
    colleges,   \* let colleges = []
    students,   \* let students = []
    clock,      \* the server's Date
    lastUpload, \* history: per college name, the last accepted upload since the
                \* last clear (its array, its email and its time)
    cleared,    \* history: DELETE /api/clear has emptied stored data
    s3gen,      \* which generation of the S3 endpoints the server has
    awsEnv,     \* AWS_ACCESS_KEY_ID and AWS_SECRET_ACCESS_KEY are both set
    s3job       \* the POST /api/export-to-s3 request that is looked at: its two
                \* uploads and the response it has sent

s3Vars == <<s3gen, awsEnv, s3job>>

\* the email service of the frontend
VARIABLES
    mailer,     \* which EmailService the frontend is built with
    ejConfig,   \* EMAILJS_CONFIG
    mail        \* the emailService.sendOTP call that is looked at: its position,
                \* the methods it has attempted and what it has returned

emailVars == <<mailer, ejConfig, mail>>

backendVars == <<variant, colleges, students, clock, lastUpload, cleared,
                 s3gen, awsEnv, s3job>>

\* the history that is kept: the issues of the entries still in the map
Live(h, m) == Restrict(h, DOMAIN h \cap DOMAIN m)

InitOTP ==
    /\ otps = <<>>
    /\ now = 0
    /\ pending = [e \in Emails |-> 0]
    /\ issued = <<>>
    /\ consumed = {}

\* time passes between two calls
Tick ==
    \E s \in Steps :
        /\ InBounds(now + s)
        /\ now' = now + s
        /\ UNCHANGED <<otps, pending, issued, consumed>>
        /\ UNCHANGED backendVars
        /\ UNCHANGED emailVars

\* sendEmailOTP up to its await: cleanup, clear, generate, store
SendEmailOTP ==
    \E email \in Emails, k \in RandNums, d \in Elapsed :
        LET t2 == now + d IN
            /\ InBounds(t2)
            /\ pending[email] < MaxPending
            /\ otps' = sendEmailOTP(otps, email, k, now, t2)
            /\ now' = t2
            /\ pending' = [pending EXCEPT ![email] = @ + 1]
            /\ issued' = Live(mapSet(issued, email,
                                     [at |-> t2, code |-> generateOTP(k),
                                      compares |-> 0]), otps')
            /\ consumed' = consumed \ {email}
            /\ UNCHANGED backendVars
            /\ UNCHANGED emailVars

\* what the awaited emailService.sendOTP can do
SendOutcomes == {"sent", "failed", "threw"}

\* sendEmailOTP after its await: emailService.sendOTP resolved true or false,
\* or it rejected and the catch block clears the entry
SendEmailOTPDone ==
    \E email \in Emails, outcome \in SendOutcomes :
        /\ pending[email] > 0
        /\ pending' = [pending EXCEPT ![email] = @ - 1]
        /\ otps' = sendEmailOTPDone(otps, email, outcome).otps
        /\ issued' = Live(issued, otps')
        /\ UNCHANGED <<now, consumed>>
        /\ UNCHANGED backendVars
        /\ UNCHANGED emailVars

VerifyEmailOTP ==
    \E email \in Emails, inputOTP \in Inputs, d \in Elapsed :
        LET t2 == now + d
            r == verifyEmailOTP(otps, email, inputOTP, now, t2)
        IN  /\ InBounds(t2)
            /\ otps' = r.otps
            /\ now' = t2
            /\ issued' = Live(IF r.compared
                              THEN [issued EXCEPT ![email].compares = @ + 1]
                              ELSE issued, otps')
            /\ consumed' = IF r.success THEN consumed \cup {email} ELSE consumed
            /\ UNCHANGED pending
            /\ UNCHANGED backendVars
            /\ UNCHANGED emailVars

GetOTPTimeRemaining ==
    \E email \in Emails, d \in Elapsed :
        LET t2 == now + d IN
            /\ InBounds(t2)
            /\ otps' = getOTPTimeRemaining(otps, email, now, t2).otps
            /\ now' = t2
            /\ issued' = Live(issued, otps')
            /\ UNCHANGED <<pending, consumed>>
            /\ UNCHANGED backendVars
            /\ UNCHANGED emailVars

HasActiveOTP ==
    \E email \in Emails :
        /\ otps' = hasActiveOTP(otps, email, now).otps
        /\ issued' = Live(issued, otps')
        /\ UNCHANGED <<now, pending, consumed>>
        /\ UNCHANGED backendVars
        /\ UNCHANGED emailVars

\* EmailOTPVerification mounts for an email
MountComponent ==
    \E email \in Emails, k \in RandNums, d \in Elapsed :
        LET t2 == now + d
            r == mountEffect(otps, email, k, now, t2)
        IN  /\ InBounds(t2)
            /\ r.sent => pending[email] < MaxPending
            /\ otps' = r.otps
            /\ now' = t2
            /\ pending' = IF r.sent THEN [pending EXCEPT ![email] = @ + 1] ELSE pending
            /\ issued' = Live(IF r.sent
                              THEN mapSet(issued, email,
                                          [at |-> t2, code |-> generateOTP(k),
                                           compares |-> 0])
                              ELSE issued, otps')
            /\ consumed' = IF r.sent THEN consumed \ {email} ELSE consumed
            /\ UNCHANGED backendVars
            /\ UNCHANGED emailVars

Next ==
    \/ Tick
    \/ SendEmailOTP
    \/ SendEmailOTPDone
    \/ VerifyEmailOTP
    \/ GetOTPTimeRemaining
    \/ HasActiveOTP
    \/ MountComponent

(***************************************************************************)
(* Backend: the in-memory arrays and POST /api/students, DELETE /api/clear *)
(***************************************************************************)
\* the two generations of the POST /api/students handler: the one that mutates
\* the existing college record, and the one that replaces it (and has /api/clear)
Variants == {"mutate", "replace"}

\* JSON values of a request body: `undefined` for a missing field, '' for empty
Undefined == "undefined"
Names == {"A", "B"}
InfoEmails == {Undefined, "p@A", "q@A"}

\* `!v` for the string-or-missing fields of the body
Falsy(v) == v \in {Undefined, ""}

\* the student records a client may send: a plain one, and one that carries
\* its own collegeName and collegeEmail
Student1 == [name |-> "s1", sport |-> "chess"]
Student2 == [name |-> "s2", sport |-> "constructor", collegeName |-> "B",
             collegeEmail |-> "z@B"]

\* the arrays a client may send
StudentArrays == {<<>>, <<Student1>>, <<Student2, Student1>>}

\* the `students` field of the body: an array, missing, or a truthy non-array
Array(L) == [tag |-> "array", items |-> L]
NoStudents == [tag |-> "undefined", items |-> <<>>]
NotAnArray == [tag |-> "object", items |-> <<>>]

Body(collegeName, studentsValue, email) ==
    [collegeName |-> collegeName, students |-> studentsValue, infoEmail |-> email]

\* the bodies that pass the validation, and a sample of those that do not
ValidBodies ==
    {Body(c, Array(L), e) : c \in Names, L \in StudentArrays, e \in InfoEmails}
InvalidBodies ==
    { Body("", Array(<<Student1>>), "p@A"),
      Body(Undefined, Array(<<Student1>>), "p@A"),
      Body("A", NoStudents, "p@A"),
      Body("A", NotAnArray, "p@A") }
Bodies == ValidBodies \cup InvalidBodies

\* a plausible slip: an empty array is taken for missing data
invalidBody_empty(body) ==
    \/ Falsy(body.collegeName)
    \/ body.students.tag # "array"
    \/ body.students.items = <<>>

\* !collegeName || !studentData || !Array.isArray(studentData)
invalidBody(body) ==
    \/ Falsy(body.collegeName)
    \/ body.students.tag = "undefined"
    \/ body.students.tag # "array"

\* collegeInfo?.email || ''
infoEmail(body) == IF Falsy(body.infoEmail) THEN "" ELSE body.infoEmail

\* { ...a, ...b }
Spread(a, b) == [f \in DOMAIN a \cup DOMAIN b |-> IF f \in DOMAIN b THEN b[f] ELSE a[f]]

\* a plausible slip: the spread written last, so the record's own fields win
tagStudent_own(student, collegeName, email, t) ==
    Spread([collegeName |-> collegeName, collegeEmail |-> email, uploadedAt |-> t], student)

\* { ...student, collegeName, collegeEmail: collegeInfo?.email || '', uploadedAt }
tagStudent(student, collegeName, email, t) ==
    Spread(student, [collegeName |-> collegeName, collegeEmail |-> email, uploadedAt |-> t])

\* studentData.map(student => ({...}))
studentsWithCollege(studentData, collegeName, email, t) ==
    [i \in 1..Len(studentData) |-> tagStudent(studentData[i], collegeName, email, t)]

\* a plausible slip: the whole array is replaced by the upload
withoutCollege_all(ss, collegeName) == <<>>

\* students.filter(s => s.collegeName !== collegeName)
withoutCollege(ss, collegeName) ==
    SelectSeq(ss, LAMBDA st : st.collegeName # collegeName)

\* a plausible slip: the lookup never finds the college
findCollege_never(cs, collegeName) == 0

\* colleges.findIndex(c => c.name === collegeName), 1-based, 0 when there is none
findCollege(cs, collegeName) ==
    IF \E i \in 1..Len(cs) : cs[i].name = collegeName
    THEN CHOOSE i \in 1..Len(cs) :
            /\ cs[i].name = collegeName
            /\ \A j \in 1..(i - 1) : cs[j].name # collegeName
    ELSE 0

newCollege(collegeName, email, count, t) ==
    [name |-> collegeName, email |-> email, studentCount |-> count,
     lastUpdated |-> t, registeredAt |-> t]

\* a plausible slip: the new upload's length is added to the stored count
upsertMutate_add(cs, collegeName, email, count, t) ==
    LET i == findCollege(cs, collegeName) IN
    IF i = 0 THEN Append(cs, newCollege(collegeName, email, count, t))
    ELSE [cs EXCEPT ![i].studentCount = @ + count, ![i].lastUpdated = t]

\* "Add college if not exists": push, or set studentCount and lastUpdated in place
upsertMutate(cs, collegeName, email, count, t) ==
    LET i == findCollege(cs, collegeName) IN
    IF i = 0 THEN Append(cs, newCollege(collegeName, email, count, t))
    ELSE [cs EXCEPT ![i].studentCount = count, ![i].lastUpdated = t]

\* "Add or update college": push, or replace the record, keeping registeredAt
upsertReplace(cs, collegeName, email, count, t) ==
    LET i == findCollege(cs, collegeName) IN
    IF i = 0 THEN Append(cs, newCollege(collegeName, email, count, t))
    ELSE [cs EXCEPT ![i] = [newCollege(collegeName, email, count, t)
                                EXCEPT !.registeredAt = cs[i].registeredAt]]

\* the error of the 400 response: 'Invalid data format', followed in the later
\* generation of the handler by a description of the expected body
NoError == [text |-> "", detail |-> ""]
InvalidDataFormat(v) ==
    [text |-> "Invalid data format",
     detail |-> IF v = "replace"
                THEN ". Expected: {collegeName, students: [], collegeInfo}" ELSE ""]

\* POST /api/students: the status, the arrays it leaves and the count it reports
postStudents(v, cs, ss, body, t) ==
    IF invalidBody(body)
    THEN [status |-> 400, error |-> InvalidDataFormat(v),
          colleges |-> cs, students |-> ss, count |-> 0]
    ELSE LET collegeName == body.collegeName
             studentData == body.students.items
             email == infoEmail(body)
             cs1 == IF v = "mutate"
                    THEN upsertMutate(cs, collegeName, email, Len(studentData), t)
                    ELSE upsertReplace(cs, collegeName, email, Len(studentData), t)
             ss1 == withoutCollege(ss, collegeName)
                        \o studentsWithCollege(studentData, collegeName, email, t)
         IN  [status |-> 200, error |-> NoError, colleges |-> cs1, students |-> ss1,
              count |-> Len(studentData)]

\* a plausible slip: only the students are dropped, the college records stay
clearData_students(cs, ss) ==
    [colleges |-> cs, students |-> <<>>,
     clearedColleges |-> Len(cs), clearedStudents |-> Len(ss)]

\* DELETE /api/clear: the arrays it leaves and the numbers it reports
clearData(cs, ss) ==
    [colleges |-> <<>>, students |-> <<>>,
     clearedColleges |-> Len(cs), clearedStudents |-> Len(ss)]

\* GET /api/students and GET /api/colleges: the data returned
getStudents(ss) == ss
getColleges(cs) == cs

\* the properties every object literal inherits from Object.prototype (a sample)
ObjectPrototype == {"constructor", "toString", "valueOf", "hasOwnProperty"}

\* the values a breakdown property can take: a number, or the string that `+ 1`
\* makes of an inherited function: its source text followed by n times "1"
Number(n) == [type |-> "number", n |-> n]
FunctionText(n) == [type |-> "string", n |-> n]

\* o[key] = (o[key] || 0) + 1 for an object o that was created as {}
countKey(o, key) ==
    IF key \in DOMAIN o
    THEN mapSet(o, key, [o[key] EXCEPT !.n = @ + 1])
    ELSE IF key \in ObjectPrototype
    THEN mapSet(o, key, FunctionText(1))
    ELSE mapSet(o, key, Number(1))

\* `if (student.f) { ... }`: the field is there and is not falsy
hasField(student, f) == f \in DOMAIN student /\ ~Falsy(student[f])

\* students.forEach(student => { if (student.f) ...[student.f] = ... + 1 })
breakdown(ss, f) ==
    LET count[i \in 0..Len(ss)] ==
            IF i = 0 THEN <<>>
            ELSE IF hasField(ss[i], f) THEN countKey(count[i - 1], ss[i][f])
            ELSE count[i - 1]
    IN  count[Len(ss)]

\* GET /api/stats: the stats object
getStats(cs, ss) ==
    [totalColleges |-> Len(cs),
     totalStudents |-> Len(ss),
     sportBreakdown |-> breakdown(ss, "sport"),
     courseBreakdown |-> breakdown(ss, "course"),
     yearBreakdown |-> breakdown(ss, "year"),
     collegeBreakdown |-> breakdown(ss, "collegeName")]

(***************************************************************************)
(* Backend: the S3 endpoints                                               *)
(***************************************************************************)
\* the three generations of the S3 endpoints: the one that tests the two
\* environment variables in every handler, the one that tests them in
\* /api/test-s3 only, and the one that tests the awsConfigured flag set at startup
S3Gens == {"checked", "unchecked", "flagged"}

\* the POST /api/students handler each of them comes with
variantOf(gen) == IF gen = "checked" THEN "mutate" ELSE "replace"

\* the handler starts with a test of the credentials
checksCredentials(gen, endpoint) == gen # "unchecked" \/ endpoint = "test-s3"

\* !process.env.AWS_ACCESS_KEY_ID || !process.env.AWS_SECRET_ACCESS_KEY, or
\* !awsConfigured, in the handlers that have the test
notConfigured(gen, env, endpoint) == checksCredentials(gen, endpoint) /\ ~env

Response(status, success) == [status |-> status, success |-> success]
NoResponse == Response(0, FALSE)

\* the status of the success:false answers of /api/test-s3 and /api/backups:
\* res.json in two generations, res.status(500).json in the third
failureStatus(gen) == IF gen = "unchecked" THEN 500 ELSE 200

\* the outcome of an S3 operation
Outcomes == {"ok", "err"}

\* GET /api/test-s3: the response and the S3 operations invoked
testS3(gen, env, outcome) ==
    IF notConfigured(gen, env, "test-s3")
    THEN [resp |-> Response(failureStatus(gen), FALSE), ops |-> {}]
    ELSE [resp |-> IF outcome = "ok" THEN Response(200, TRUE)
                   ELSE Response(failureStatus(gen), FALSE),
          ops |-> {"listBuckets"}]

\* GET /api/backups: the response and the S3 operations invoked
getBackups(gen, env, outcome) ==
    IF notConfigured(gen, env, "backups")
    THEN [resp |-> Response(200, FALSE), ops |-> {}]
    ELSE [resp |-> IF outcome = "ok" THEN Response(200, TRUE)
                   ELSE Response(failureStatus(gen), FALSE),
          ops |-> {"listObjectsV2"}]

\* no export request has been made
IdleJob == [json |-> "none", csv |-> "none", resp |-> NoResponse]

\* s3.upload with a callback, or s3Client.putObject(...).promise()
uploadOp(gen) == IF gen = "flagged" THEN "putObject" ELSE "upload"

\* POST /api/export-to-s3 up to its first wait: refused, or the JSON upload
\* started (awaited on its own) or both uploads started (Promise.all)
exportToS3(gen, env) ==
    IF notConfigured(gen, env, "export-to-s3")
    THEN [json |-> "none", csv |-> "none", resp |-> Response(200, FALSE)]
    ELSE IF gen = "flagged"
    THEN [json |-> "pending", csv |-> "none", resp |-> NoResponse]
    ELSE [json |-> "pending", csv |-> "pending", resp |-> NoResponse]

\* the S3 operations POST /api/export-to-s3 invokes up to its first wait
exportOps(gen, env) ==
    IF notConfigured(gen, env, "export-to-s3") THEN {} ELSE {uploadOp(gen)}

\* a plausible slip: the success answer is sent when one of the two is stored
allStored_any(job) == job.json = "stored" \/ job.csv = "stored"

\* both awaits have returned, or Promise.all has fulfilled
allStored(job) == job.json = "stored" /\ job.csv = "stored"

\* an upload of the export has ended: the catch answers 500 at the first
\* failure, the success answer is sent when both are stored; with the uploads
\* awaited one after the other the CSV upload starts when the JSON is stored
uploadDone(gen, job, kind, outcome) ==
    LET j1 == [job EXCEPT ![kind] = IF outcome = "ok" THEN "stored" ELSE "failed"] IN
    IF j1.resp # NoResponse THEN j1
    ELSE IF outcome = "err" THEN [j1 EXCEPT !.resp = Response(500, FALSE)]
    ELSE IF allStored(j1) THEN [j1 EXCEPT !.resp = Response(200, TRUE)]
    ELSE IF gen = "flagged" THEN [j1 EXCEPT !.csv = "pending"]
    ELSE j1

inFlight(job) == job.json = "pending" \/ job.csv = "pending"

InitBackend ==
    /\ variant \in Variants
    /\ colleges = <<>>
    /\ students = <<>>
    /\ clock = 0
    /\ lastUpload = <<>>
    /\ cleared = FALSE
    /\ s3gen = IF variant = "mutate" THEN "checked" ELSE "unchecked"
    /\ awsEnv = FALSE
    /\ s3job = IdleJob

\* the backend when only the OTP service is looked at
BackendIdle ==
    /\ variant = "replace"
    /\ colleges = <<>>
    /\ students = <<>>
    /\ clock = 0
    /\ lastUpload = <<>>
    /\ cleared = FALSE
    /\ s3gen = "unchecked"
    /\ awsEnv = FALSE
    /\ s3job = IdleJob

\* the OTP service when only the backend is looked at
OTPIdle == InitOTP

ClockTick ==
    /\ clock < MaxClock
    /\ clock' = clock + 1
    /\ UNCHANGED <<variant, colleges, students, lastUpload, cleared>>
    /\ UNCHANGED s3Vars
    /\ UNCHANGED otpVars
    /\ UNCHANGED emailVars

PostStudents ==
    \E body \in Bodies :
        LET r == postStudents(variant, colleges, students, body, clock) IN
            /\ colleges' = r.colleges
            /\ students' = r.students
            /\ lastUpload' = IF r.status = 200
                             THEN mapSet(lastUpload, body.collegeName,
                                         [items |-> body.students.items,
                                          email |-> infoEmail(body), at |-> clock])
                             ELSE lastUpload
            /\ UNCHANGED <<variant, clock, cleared>>
            /\ UNCHANGED s3Vars
            /\ UNCHANGED otpVars
            /\ UNCHANGED emailVars

ClearData ==
    /\ variant = "replace"
    /\ colleges' = clearData(colleges, students).colleges
    /\ students' = clearData(colleges, students).students
    /\ lastUpload' = <<>>
    /\ cleared' = (cleared \/ Len(colleges) > 0)
    /\ UNCHANGED <<variant, clock>>
    /\ UNCHANGED s3Vars
    /\ UNCHANGED otpVars
    /\ UNCHANGED emailVars

NextBackend ==
    \/ ClockTick
    \/ PostStudents
    \/ ClearData

\* the arrays, which no S3 endpoint assigns
dataVars == <<variant, colleges, students, clock, lastUpload, cleared>>

\* a server of any of the three generations, with or without the credentials
InitS3 ==
    /\ s3gen \in S3Gens
    /\ variant = variantOf(s3gen)
    /\ awsEnv \in BOOLEAN
    /\ colleges = <<>>
    /\ students = <<>>
    /\ clock = 0
    /\ lastUpload = <<>>
    /\ cleared = FALSE
    /\ s3job = IdleJob

\* POST /api/export-to-s3 up to its first wait
ExportToS3 ==
    /\ ~inFlight(s3job)
    /\ s3job' = exportToS3(s3gen, awsEnv)
    /\ UNCHANGED <<s3gen, awsEnv>>
    /\ UNCHANGED dataVars
    /\ UNCHANGED otpVars
    /\ UNCHANGED emailVars

\* an upload of the export ends, and the handler continues
UploadDone ==
    \E kind \in {"json", "csv"}, outcome \in Outcomes :
        /\ s3job[kind] = "pending"
        /\ s3job' = uploadDone(s3gen, s3job, kind, outcome)
        /\ UNCHANGED <<s3gen, awsEnv>>
        /\ UNCHANGED dataVars
        /\ UNCHANGED otpVars
        /\ UNCHANGED emailVars

NextS3 ==
    \/ PostStudents
    \/ ExportToS3
    \/ UploadDone

(***************************************************************************)
(* EmailService: the backend-with-simulation one and the EmailJS one       *)
(***************************************************************************)
\* the two EmailService classes a frontend can be built with
Mailers == {"backend", "emailjs"}

\* EMAILJS_CONFIG as it is in the source, and with values replaced
Placeholder ==
    [serviceID |-> "service_qairoz", templateID |-> "template_otp",
     publicKey |-> "YOUR_EMAILJS_PUBLIC_KEY"]
EmailJSConfigs ==
    [serviceID : {"service_qairoz", "service_x"},
     templateID : {"template_otp", "template_x"},
     publicKey : {"YOUR_EMAILJS_PUBLIC_KEY", "key_x"}]

isEmailJSConfigured(cfg) ==
    /\ cfg.publicKey # "YOUR_EMAILJS_PUBLIC_KEY"
    /\ cfg.serviceID # "service_qairoz"
    /\ cfg.templateID # "template_otp"

\* what emailjs.send can do: resolve with status 200 or another, or reject
EmailJSOutcomes == {"200", "other", "error"}

\* what the POST /send-email can do: a 2xx answer with success:true, a non-2xx
\* answer, a 2xx answer with success:false, a body that is not JSON, the abort
\* of AbortSignal.timeout(8000), a rejected fetch
BackendOutcomes == {"ok", "status", "failure", "unparsable", "timeout", "network"}

\* what sessionStorage.setItem can do
StorageOutcomes == {"ok", "throws"}

\* a plausible slip: any answer of emailjs.send is taken for a success
emailJSSucceeded_resolved(cfg, outcome) == isEmailJSConfigured(cfg) /\ outcome # "error"

\* sendViaEmailJS: true when emailjs.send resolved with status 200
emailJSSucceeded(cfg, outcome) == isEmailJSConfigured(cfg) /\ outcome = "200"

\* sendViaBackend returns true: response.ok and result.success
backendSucceeded(outcome) == outcome = "ok"

\* a plausible slip: an answer with success:false is returned as false, not thrown
backendThrows_http(outcome) == outcome \notin {"ok", "failure"}

\* sendViaBackend of the first service throws on everything else; the one of
\* the EmailJS service catches and returns false
backendThrows(outcome) == ~backendSucceeded(outcome)

Tried(method, outcome) == [method |-> method, outcome |-> outcome]

IdleMail == [pc |-> "idle", to |-> "", tried |-> <<>>, result |-> "none"]

\* sendOTP up to its first await: emailjs.send when EmailJS is configured,
\* the fetch of sendViaBackend otherwise
startSendOTP(kind, cfg, to) ==
    [pc |-> IF kind = "emailjs" /\ isEmailJSConfigured(cfg) THEN "emailjs" ELSE "backend",
     to |-> to, tried |-> <<>>, result |-> "none"]

\* sendOTP of the EmailJS service after emailjs.send: return true, or go on
\* with the backend
afterEmailJS(cfg, m, outcome) ==
    LET m1 == [m EXCEPT !.tried = Append(@, Tried("emailjs", outcome))] IN
    IF emailJSSucceeded(cfg, outcome)
    THEN [m1 EXCEPT !.pc = "done", !.result = "true"]
    ELSE [m1 EXCEPT !.pc = "backend"]

\* simulateEmailSending in the catch of sendOTP: it returns true, or the
\* sessionStorage.setItem in it throws and sendOTP rejects
simulateEmailSending(m, storage) ==
    [m EXCEPT !.tried = Append(@, Tried("simulation", storage)),
              !.pc = "done",
              !.result = IF storage = "ok" THEN "true" ELSE "rejected"]

\* sendOTP after the backend call
afterBackend(kind, m, outcome, storage) ==
    LET m1 == [m EXCEPT !.tried = Append(@, Tried("backend", outcome))] IN
    IF kind = "emailjs"
    THEN [m1 EXCEPT !.pc = "done",
                    !.result = IF backendSucceeded(outcome) THEN "true" ELSE "false"]
    ELSE IF backendThrows(outcome)
    THEN simulateEmailSending(m1, storage)
    ELSE [m1 EXCEPT !.pc = "done", !.result = "true"]

InitEmail ==
    /\ mailer \in Mailers
    /\ ejConfig \in EmailJSConfigs
    /\ mailer = "backend" => ejConfig = Placeholder
    /\ mail = IdleMail

\* the email service when it is not looked at
EmailIdle ==
    /\ mailer = "backend"
    /\ ejConfig = Placeholder
    /\ mail = IdleMail

\* emailService.sendOTP(email, otp) is called
SendOTP ==
    \E to \in Emails :
        /\ mail.pc \in {"idle", "done"}
        /\ mail' = startSendOTP(mailer, ejConfig, to)
        /\ UNCHANGED <<mailer, ejConfig>>
        /\ UNCHANGED <<otpVars, backendVars>>

\* emailjs.send has resolved or rejected
EmailJSDone ==
    \E outcome \in EmailJSOutcomes :
        /\ mail.pc = "emailjs"
        /\ mail' = afterEmailJS(ejConfig, mail, outcome)
        /\ UNCHANGED <<mailer, ejConfig>>
        /\ UNCHANGED <<otpVars, backendVars>>

\* the fetch of sendViaBackend has resolved or rejected
BackendDone ==
    \E outcome \in BackendOutcomes, storage \in StorageOutcomes :
        /\ mail.pc = "backend"
        /\ mail' = afterBackend(mailer, mail, outcome, storage)
        /\ UNCHANGED <<mailer, ejConfig>>
        /\ UNCHANGED <<otpVars, backendVars>>

NextEmail ==
    \/ SendOTP
    \/ EmailJSDone
    \/ BackendDone

(***************************************************************************)
(* Specifications                                                          *)
(***************************************************************************)
vars == <<otps, now, pending, issued, consumed,
          variant, colleges, students, clock, lastUpload, cleared,
          s3gen, awsEnv, s3job, mailer, ejConfig, mail>>

\* the OTP service
Init == InitOTP /\ BackendIdle /\ EmailIdle
Spec == Init /\ [][Next]_vars

\* the backend
InitServer == OTPIdle /\ InitBackend /\ EmailIdle
SpecBackend == InitServer /\ [][NextBackend]_vars

\* the backend's S3 endpoints
InitServerS3 == OTPIdle /\ InitS3 /\ EmailIdle
SpecS3 == InitServerS3 /\ [][NextS3]_vars

\* the email service
InitMail == OTPIdle /\ BackendIdle /\ InitEmail
SpecEmail == InitMail /\ [][NextEmail]_vars

TypeOK ==
    /\ DOMAIN otps \subseteq Emails
    /\ DOMAIN issued = DOMAIN otps

(***************************************************************************)
(* OTPService: properties                                                  *)
(***************************************************************************)
\* parseInt of a string of decimal digits
RECURSIVE ValueOf(_)
ValueOf(str) ==
    IF str = <<>> THEN 0 ELSE 10 * ValueOf(SubSeq(str, 1, Len(str) - 1)) + str[Len(str)]

IsSixDigitCode(str) ==
    /\ Len(str) = 6
    /\ \A i \in 1..6 : str[i] \in 0..9
    /\ ValueOf(str) >= 100000
    /\ ValueOf(str) <= 999999

\* C1: verifyEmailOTP(email, input) returns success:true only if, when it is
\* called, the map holds an entry of that email whose code equals the input, the
\* time is not past the entry's expiresAt and fewer than 3 attempts were counted;
\* every other call returns success:false.
C1_VerifySucceedsOnlyOnValidEntry ==
    \A email \in Emails, inputOTP \in Inputs, d \in Elapsed :
        LET r == verifyEmailOTP(otps, email, inputOTP, now, now + d) IN
        r.success =>
            /\ email \in DOMAIN otps
            /\ otps[email].code = inputOTP
            /\ now <= otps[email].expiresAt
            /\ now + d <= otps[email].expiresAt
            /\ otps[email].attempts < 3

\* a verification has succeeded, and another email's entry verifies at its third attempt
C1_Witness ==
    /\ consumed # {}
    /\ \E email \in DOMAIN otps :
        /\ otps[email].attempts = 2
        /\ verifyEmailOTP(otps, email, otps[email].code, now, now).success

\* C2: an OTP issued at time t has expired at every time later than t + 300000 ms:
\* a verifyEmailOTP called then fails, also with the right code, and leaves no
\* entry of the email; hasActiveOTP returns false and getOTPTimeRemaining 0.
C2_ExpiresAfterFiveMinutes ==
    \A email \in DOMAIN otps :
        now > issued[email].at + 300000 =>
            /\ \A inputOTP \in Inputs, d \in Elapsed :
                LET r == verifyEmailOTP(otps, email, inputOTP, now, now + d) IN
                /\ ~r.success
                /\ email \notin DOMAIN r.otps
            /\ ~hasActiveOTP(otps, email, now).value
            /\ email \notin DOMAIN hasActiveOTP(otps, email, now).otps
            /\ \A d \in Elapsed :
                /\ getOTPTimeRemaining(otps, email, now, now + d).value = 0
                /\ email \notin DOMAIN getOTPTimeRemaining(otps, email, now, now + d).otps

\* an untouched entry is still in the map more than 5 minutes after its issue
C2_Witness ==
    \E email \in DOMAIN otps :
        /\ now > issued[email].at + 300000
        /\ otps[email].attempts = 0
        /\ otps[email].code \in Inputs

\* C3 as stated: at most 3 calls compare an input against one stored code, and
\* with 3 attempts counted the next verifyEmailOTP fails with 'Too many attempts.
\* Please request a new OTP.', also when the input is the code.
C3_Original ==
    /\ \A email \in DOMAIN issued : issued[email].compares <= 3
    /\ \A email \in DOMAIN otps, inputOTP \in Inputs, d \in Elapsed :
        LET r == verifyEmailOTP(otps, email, inputOTP, now, now + d) IN
        otps[email].attempts >= 3 => (~r.success /\ r.message = MsgTooMany)

\* C3 as amended: at most 3 calls compare an input against one stored code, and
\* with 3 attempts counted the next verifyEmailOTP fails, also when the input is
\* the code: with 'Too many attempts. Please request a new OTP.' while the entry
\* has not expired, and with one of the two expiry messages once it has.
C3_AttemptsLimited ==
    /\ \A email \in DOMAIN issued : issued[email].compares <= 3
    /\ \A email \in DOMAIN otps, inputOTP \in Inputs, d \in Elapsed :
        LET r == verifyEmailOTP(otps, email, inputOTP, now, now + d) IN
        otps[email].attempts >= 3 =>
            /\ ~r.success
            /\ ~r.compared
            /\ IF now + d <= otps[email].expiresAt
               THEN r.message = MsgTooMany
               ELSE r.message \in {MsgNotFound, MsgExpired}

\* three inputs were compared against an entry that has not expired
C3_Witness ==
    \E email \in DOMAIN otps :
        /\ issued[email].compares = 3
        /\ otps[email].attempts = 3
        /\ now <= otps[email].expiresAt

\* C4 as stated: the third failed verifyEmailOTP of an OTP leaves no entry of the
\* email in the map, and hasActiveOTP(email) then returns false.
C4_Original ==
    \A email \in DOMAIN otps, inputOTP \in Inputs, d \in Elapsed :
        LET r == verifyEmailOTP(otps, email, inputOTP, now, now + d) IN
        (otps[email].attempts = 2 /\ ~r.success) =>
            /\ email \notin DOMAIN r.otps
            /\ ~hasActiveOTP(r.otps, email, now + d).value

\* C5: after a successful verifyEmailOTP the entry is gone, and until sendEmailOTP
\* is called again for the email every verifyEmailOTP of it fails with 'OTP not
\* found or expired. Please request a new one.'
C5_OneTime ==
    \A email \in consumed :
        /\ email \notin DOMAIN otps
        /\ \A inputOTP \in Inputs, d \in Elapsed :
            LET r == verifyEmailOTP(otps, email, inputOTP, now, now + d) IN
            /\ ~r.success
            /\ r.message = MsgNotFound
            /\ email \notin DOMAIN r.otps

\* one email's OTP was consumed while the other email still has its entry
C5_Witness ==
    \E email \in consumed :
        /\ pending[email] = 0
        /\ \E other \in DOMAIN otps : other # email

\* C6: sendEmailOTP(email) stores an entry whose code is a 6-digit decimal string
\* in 100000..999999, whose attempts counter is 0 and whose expiresAt is the issue
\* time plus 300000 ms.
C6_SendStoresFreshEntry ==
    /\ \A email \in Emails, k \in RandNums, d \in Elapsed :
        LET m == sendEmailOTP(otps, email, k, now, now + d) IN
        /\ email \in DOMAIN m
        /\ IsSixDigitCode(m[email].code)
        /\ m[email].attempts = 0
        /\ m[email].expiresAt = now + d + 300000
    /\ \A email \in DOMAIN otps :
        /\ IsSixDigitCode(otps[email].code)
        /\ otps[email].expiresAt = issued[email].at + 300000
        /\ otps[email].attempts = issued[email].compares

\* an entry was just issued with the largest code that was sampled
C6_Witness ==
    \E email \in DOMAIN otps :
        /\ otps[email].code = generateOTP(RandDenom - 1)
        /\ otps[email].attempts = 0
        /\ issued[email].at = now
        /\ now > 0

\* C7: the map holds at most one entry per email, the one issued last; a
\* sendEmailOTP for an email that has an entry, in whatever state, leaves an entry
\* with attempts 0 that expires 5 minutes after the new issue, and only the new
\* code verifies against it.
C7_SendStartsFresh ==
    /\ \A email \in DOMAIN otps :
        /\ Cardinality({key \in DOMAIN otps : otps[key].email = email}) = 1
        /\ otps[email].email = email
        /\ otps[email].code = issued[email].code
    /\ \A email \in DOMAIN otps, k \in RandNums, d \in Elapsed :
        LET m == sendEmailOTP(otps, email, k, now, now + d) IN
        /\ Cardinality({key \in DOMAIN m : m[key].email = email}) = 1
        /\ m[email].attempts = 0
        /\ m[email].expiresAt = now + d + 300000
        /\ \A inputOTP \in Inputs :
            verifyEmailOTP(m, email, inputOTP, now + d, now + d).success
                => inputOTP = generateOTP(k)

\* an unexpired entry with two counted attempts, whose email is sent a new OTP
\* with another code: the old code, which verified before, no longer does
C7_Witness ==
    \E email \in DOMAIN otps, k \in RandNums :
        LET m == sendEmailOTP(otps, email, k, now, now) IN
        /\ otps[email].attempts = 2
        /\ pending[email] < MaxPending
        /\ generateOTP(k) # otps[email].code
        /\ verifyEmailOTP(otps, email, otps[email].code, now, now).success
        /\ ~verifyEmailOTP(m, email, otps[email].code, now, now).success
        /\ verifyEmailOTP(m, email, generateOTP(k), now, now).success

\* C17: sendEmailOTP does not delete the OTP when the email was not delivered:
\* when emailService.sendOTP resolves false it returns success:true and leaves
\* the map as it is, so that the stored code still verifies; it returns
\* success:false only when an exception was thrown, and then the map holds no
\* entry of that email.
C17_EntryKeptOnDeliveryFailure ==
    \A email \in Emails :
        pending[email] > 0 =>
            /\ LET r == sendEmailOTPDone(otps, email, "failed") IN
                /\ r.success
                /\ r.otps = otps
                /\ \A d \in Elapsed :
                    (/\ email \in DOMAIN otps
                     /\ now + d <= otps[email].expiresAt
                     /\ otps[email].attempts < 3)
                    => verifyEmailOTP(r.otps, email, otps[email].code, now, now + d).success
            /\ \A outcome \in SendOutcomes :
                LET r == sendEmailOTPDone(otps, email, outcome) IN
                /\ ~r.success <=> outcome = "threw"
                /\ ~r.success => email \notin DOMAIN r.otps
                /\ \A other \in DOMAIN otps \ {email} :
                    other \in DOMAIN r.otps /\ r.otps[other] = otps[other]

\* a sendEmailOTP awaits the email service while its entry, against which a
\* wrong code was tried, is stored and can still be verified
C17_Witness ==
    \E email \in DOMAIN otps :
        /\ pending[email] > 0
        /\ otps[email].attempts = 1
        /\ sendEmailOTPDone(otps, email, "failed").success
        /\ verifyEmailOTP(sendEmailOTPDone(otps, email, "failed").otps, email,
                          otps[email].code, now, now).success
        /\ email \notin DOMAIN sendEmailOTPDone(otps, email, "threw").otps

\* C18 as stated: an OTP delivered through the simulation fallback (sendOTP
\* resolved true) can still be verified successfully with verifyEmailOTP at any
\* time up to 10 minutes after it was issued.
C18_Original ==
    \A email \in DOMAIN otps :
        (/\ pending[email] = 0
         /\ otps[email].attempts < 3
         /\ now <= issued[email].at + 10 * 60 * 1000)
        => verifyEmailOTP(otps, email, otps[email].code, now, now).success

\* C19: a verifyEmailOTP with a wrong code on an unexpired entry with fewer than
\* 3 attempts keeps the entry, increments attempts by exactly 1 and reports
\* 'Invalid OTP. N attempts remaining.' with N = 3 minus the new attempts value
\* (2, then 1, then 0); the attempts of every stored entry stay within 0..3.
C19_WrongCodeCountsOneAttempt ==
    /\ \A email \in DOMAIN otps : otps[email].attempts \in 0..3
    /\ \A email \in DOMAIN otps, inputOTP \in Inputs, d \in Elapsed :
        LET r == verifyEmailOTP(otps, email, inputOTP, now, now + d) IN
        (/\ inputOTP # otps[email].code
         /\ now + d <= otps[email].expiresAt
         /\ otps[email].attempts < 3)
        => /\ ~r.success
           /\ DOMAIN r.otps = DOMAIN cleanupExpiredOTPs(otps, now)
           /\ r.otps[email] = [otps[email] EXCEPT !.attempts = otps[email].attempts + 1]
           /\ r.message = MsgInvalid(3 - r.otps[email].attempts)
           /\ r.message.n = 2 - otps[email].attempts
           /\ r.message.n \in {2, 1, 0}

\* two wrong codes were tried against an unexpired entry: a third one is
\* answered with 0 attempts remaining
C19_Witness ==
    \E email \in DOMAIN otps :
        /\ otps[email].attempts = 2
        /\ issued[email].compares = 2
        /\ now <= otps[email].expiresAt
        /\ verifyEmailOTP(otps, email, WrongCode, now, now).message = MsgInvalid(0)

\* C20 as stated: when EmailOTPVerification mounts while hasActiveOTP(email) is
\* true it does not call sendEmailOTP and the stored code, expiry and attempts
\* of the email are unchanged; it sends a new OTP only when no active OTP exists.
C20_Original ==
    \A email \in Emails, k \in RandNums, d \in Elapsed :
        LET r == mountEffect(otps, email, k, now, now + d) IN
        IF hasActiveOTP(otps, email, now).value
        THEN /\ ~r.sent
             /\ email \in DOMAIN r.otps
             /\ r.otps[email] = otps[email]
        ELSE r.sent

\* C20 as amended: when EmailOTPVerification mounts while hasActiveOTP(email) is
\* true it does not call sendEmailOTP and writes no entry: the stored code,
\* expiry and attempts of the email are as they were, unless the entry expires
\* before the effect reads its remaining time, and then that read removes it;
\* it sends a new OTP on mount only when no active OTP exists for the email.
C20_MountReusesActiveOTP ==
    \A email \in Emails, k \in RandNums, d \in Elapsed :
        LET r == mountEffect(otps, email, k, now, now + d) IN
        /\ r.sent <=> ~hasActiveOTP(otps, email, now).value
        /\ ~r.sent =>
            /\ r.otps = cleanupExpiredOTPs(otps, now + d)
            /\ \A key \in DOMAIN r.otps : r.otps[key] = otps[key]
            /\ now + d <= otps[email].expiresAt =>
                /\ email \in DOMAIN r.otps
                /\ r.otps[email].code = otps[email].code
                /\ r.otps[email].expiresAt = otps[email].expiresAt
                /\ r.otps[email].attempts = otps[email].attempts
        /\ r.sent =>
            /\ email \notin DOMAIN cleanupExpiredOTPs(otps, now)
            /\ r.otps[email] = newOTPData(generateOTP(k), email, now + d)

\* the component would reuse the entry of one email, against which a wrong code
\* was tried, and send a new OTP to the other email, which has none
C20_Witness ==
    \E email \in DOMAIN otps, other \in Emails \ DOMAIN otps, k \in RandNums :
        /\ otps[email].attempts = 1
        /\ now > issued[email].at
        /\ ~mountEffect(otps, email, k, now, now).sent
        /\ mountEffect(otps, email, k, now, now).otps[email] = otps[email]
        /\ mountEffect(otps, email, k, now, now).timeRemaining > 0
        /\ mountEffect(otps, other, k, now, now).sent

\* the maps the four operations that begin with cleanupExpiredOTPs can leave when
\* they are called for email with Date.now() = t1 in the cleanup and t2 after it
\* (sendEmailOTP: when it reaches its await)
MapsAfter(m, email, t1, t2) ==
    {sendEmailOTP(m, email, k, t1, t2) : k \in RandNums}
    \cup {verifyEmailOTP(m, email, inputOTP, t1, t2).otps : inputOTP \in Inputs}
    \cup {getOTPTimeRemaining(m, email, t1, t2).otps, hasActiveOTP(m, email, t1).otps}

\* C24: after sendEmailOTP, verifyEmailOTP, getOTPTimeRemaining or hasActiveOTP,
\* called for any email at time t, the map holds no entry of any email whose
\* expiresAt is earlier than t; the cleanup removes exactly the entries whose
\* expiresAt is earlier than t, and an entry of another email whose expiresAt
\* is t or later is in the map after the operation, unchanged; what sendEmailOTP
\* does after its await adds no entry and changes none.
C24_CleanupRemovesOnlyExpired ==
    [](LET t == now
           kept == cleanupExpiredOTPs(otps, t)
       IN  /\ \A key \in DOMAIN otps :
               IF otps[key].expiresAt < t
               THEN key \notin DOMAIN kept
               ELSE key \in DOMAIN kept /\ kept[key] = otps[key]
           /\ DOMAIN kept \subseteq DOMAIN otps
           /\ \A email \in Emails :
               /\ hasActiveOTP(otps, email, t).otps = kept
               /\ \A outcome \in SendOutcomes :
                   sendEmailOTPDone(otps, email, outcome).otps
                       \in {otps, clearOTP(otps, email)}
               /\ \A d \in Elapsed :
                   /\ getOTPTimeRemaining(otps, email, t, t + d).otps = kept
                   /\ \A m \in MapsAfter(otps, email, t, t + d) :
                       /\ \A key \in DOMAIN m : m[key].expiresAt >= t
                       /\ \A key \in DOMAIN kept \ {email} :
                           key \in DOMAIN m /\ m[key] = kept[key])

\* the map holds an entry that has expired and an entry of another email that
\* is at its expiresAt
C24_Witness ==
    \E e1, e2 \in DOMAIN otps :
        /\ otps[e1].expiresAt < now
        /\ otps[e2].expiresAt = now
        /\ e1 \notin DOMAIN cleanupExpiredOTPs(otps, now)
        /\ e2 \in DOMAIN hasActiveOTP(otps, e1, now).otps

\* the times a user may wait between the issue of a code and its verification:
\* none, and the whole 5 minutes
Waits == {0, OTP_EXPIRY_TIME}

\* verifyEmailOTP(email, code) at time t succeeds on map m, and succeeds after the
\* given number of verifyEmailOTP calls with a wrong code made at that time
RECURSIVE succeedsAfterWrongCodes(_, _, _, _, _)
succeedsAfterWrongCodes(m, email, code, n, t) ==
    /\ verifyEmailOTP(m, email, code, t, t).success
    /\ n > 0 =>
         succeedsAfterWrongCodes(verifyEmailOTP(m, email, WrongCode, t, t).otps,
                                 email, code, n - 1, t)

\* C25: a user is never locked out of verification: in every reachable state
\* (with the email's entry expired, consumed by a success, exhausted, or of any
\* other kind), a sendEmailOTP(email) whose emailService.sendOTP does not throw
\* issues a new code, and a verifyEmailOTP with that code made no later than 5
\* minutes after the issue succeeds as the first, the second or the third
\* attempt; and an entry that is in the map, not expired and with fewer than 3
\* attempts, is verified by the last code issued for its email.
C25_NeverLockedOut ==
    [](/\ \A email \in Emails, k \in RandNums, d \in Elapsed :
            LET issuedAt == now + d
                code == generateOTP(k)
                m == sendEmailOTP(otps, email, k, now, issuedAt)
            IN  /\ email \in DOMAIN m
                /\ m[email].code = code
                /\ \A outcome \in SendOutcomes \ {"threw"} :
                    /\ sendEmailOTPDone(m, email, outcome).success
                    /\ sendEmailOTPDone(m, email, outcome).otps = m
                /\ \A wait \in Waits :
                    succeedsAfterWrongCodes(m, email, code, MAX_ATTEMPTS - 1,
                                            issuedAt + wait)
       /\ \A email \in DOMAIN otps, d \in Elapsed :
            (otps[email].attempts < MAX_ATTEMPTS /\ now + d <= otps[email].expiresAt) =>
                /\ email \in DOMAIN issued
                /\ verifyEmailOTP(otps, email, issued[email].code, now, now + d).success)

\* one email's entry is exhausted and expired, the other email's code was
\* consumed by a success, and a new code issued for either is verified
C25_Witness ==
    \E e1 \in DOMAIN otps, e2 \in consumed \ DOMAIN otps, k \in RandNums :
        /\ e1 # e2
        /\ otps[e1].attempts = MAX_ATTEMPTS
        /\ otps[e1].expiresAt < now
        /\ \A e \in {e1, e2} :
            verifyEmailOTP(sendEmailOTP(otps, e, k, now, now), e, generateOTP(k),
                           now + OTP_EXPIRY_TIME, now + OTP_EXPIRY_TIME).success

(***************************************************************************)
(* Backend: properties                                                     *)
(***************************************************************************)
\* the stored students of one college, in the order of the array
ByCollege(ss, collegeName) ==
    SelectSeq(ss, LAMBDA st : st.collegeName = collegeName)

\* the records of one college in colleges
RecordsOf(cs, collegeName) ==
    SelectSeq(cs, LAMBDA c : c.name = collegeName)

Tags == {"collegeName", "collegeEmail", "uploadedAt"}

\* C8: after an accepted POST /api/students for college C with array L, the stored
\* students whose collegeName is C are the records of L in order, each with
\* collegeName C (whatever collegeName the record carried), collegeEmail and
\* uploadedAt; the students C had before are gone; the response reports Len(L).
C8_UploadReplacesCollegeStudents ==
    \A body \in ValidBodies :
        LET r == postStudents(variant, colleges, students, body, clock)
            C == body.collegeName
            L == body.students.items
            stored == ByCollege(getStudents(r.students), C)
        IN  /\ r.status = 200
            /\ r.count = Len(L)
            /\ Len(stored) = Len(L)
            /\ \A i \in 1..Len(L) :
                /\ DOMAIN stored[i] = DOMAIN L[i] \cup Tags
                /\ \A f \in DOMAIN L[i] \ Tags : stored[i][f] = L[i][f]
                /\ stored[i].collegeName = C
                /\ stored[i].collegeEmail = infoEmail(body)
                /\ stored[i].uploadedAt = clock
            /\ Len(r.students) = Len(students) - Len(ByCollege(students, C)) + Len(L)

\* a college that uploaded before has uploaded two students again, later
C8_Witness ==
    \E i \in 1..Len(colleges) :
        /\ colleges[i].registeredAt < colleges[i].lastUpdated
        /\ colleges[i].studentCount = 2
        /\ Len(ByCollege(students, colleges[i].name)) = 2

\* C9: an accepted POST /api/students for college C leaves the stored students
\* and the college records of every other college as they were, so that GET
\* /api/students returns, for each college, the students of its last accepted
\* upload, and nothing else.
C9_OtherCollegesUntouched ==
    /\ \A body \in ValidBodies, other \in Names :
        LET r == postStudents(variant, colleges, students, body, clock) IN
        other # body.collegeName =>
            /\ ByCollege(r.students, other) = ByCollege(students, other)
            /\ RecordsOf(r.colleges, other) = RecordsOf(colleges, other)
    /\ \A c \in Names :
        ByCollege(getStudents(students), c) =
            IF c \in DOMAIN lastUpload
            THEN studentsWithCollege(lastUpload[c].items, c,
                                     lastUpload[c].email, lastUpload[c].at)
            ELSE <<>>
    /\ \A i \in 1..Len(students) : students[i].collegeName \in DOMAIN lastUpload

\* both colleges have students stored, the second uploaded after the first
C9_Witness ==
    /\ DOMAIN lastUpload = Names
    /\ \A c \in Names : Len(ByCollege(students, c)) > 0
    /\ \E c, other \in Names : lastUpload[c].at < lastUpload[other].at

\* C10: after any sequence of POST /api/students and DELETE /api/clear, colleges
\* holds no two records of the same name, and exactly one record for every
\* college name accepted since the last clear.
C10_OneRecordPerCollege ==
    /\ \A i, j \in 1..Len(colleges) : colleges[i].name = colleges[j].name => i = j
    /\ \A c \in DOMAIN lastUpload : Len(RecordsOf(getColleges(colleges), c)) = 1
    /\ \A i \in 1..Len(colleges) : colleges[i].name \in DOMAIN lastUpload

\* after a clear, both colleges were accepted again and one of them twice
C10_Witness ==
    /\ cleared
    /\ Len(colleges) = 2
    /\ \E i \in 1..Len(colleges) : colleges[i].registeredAt < colleges[i].lastUpdated

\* the values of field f among the stored students, and their numbers
ValuesOf(ss, f) == {ss[i][f] : i \in {j \in 1..Len(ss) : hasField(ss[j], f)}}
CountOf(ss, f, v) == Cardinality({i \in 1..Len(ss) : hasField(ss[i], f) /\ ss[i][f] = v})

\* a breakdown that maps every value of the field to the number of its students
CountsField(b, ss, f) ==
    /\ DOMAIN b = ValuesOf(ss, f)
    /\ \A v \in DOMAIN b : b[v] = Number(CountOf(ss, f, v))

\* the sum of the numbers of a breakdown
RECURSIVE SumOver(_, _)
SumOver(b, keys) ==
    IF keys = {} THEN 0
    ELSE LET v == CHOOSE x \in keys : TRUE IN
         (IF b[v].type = "number" THEN b[v].n ELSE 0) + SumOver(b, keys \ {v})

\* C11 as stated: GET /api/stats reports totalStudents and totalColleges equal to
\* the lengths of students and colleges, each breakdown (sport, course, year,
\* college) maps every value to the number of stored students having it, skipping
\* the students whose field is missing or falsy, and the collegeBreakdown counts
\* sum to totalStudents.
C11_Original ==
    LET stats == getStats(colleges, students) IN
    /\ stats.totalStudents = Len(students)
    /\ stats.totalColleges = Len(colleges)
    /\ CountsField(stats.sportBreakdown, students, "sport")
    /\ CountsField(stats.courseBreakdown, students, "course")
    /\ CountsField(stats.yearBreakdown, students, "year")
    /\ CountsField(stats.collegeBreakdown, students, "collegeName")
    /\ SumOver(stats.collegeBreakdown, DOMAIN stats.collegeBreakdown) = stats.totalStudents

\* C12: a POST /api/students whose collegeName is missing or empty, or whose
\* students field is missing or not an array, is answered 400 'Invalid data
\* format' and leaves colleges and students as they were; one with a non-empty
\* collegeName and an empty array is accepted and leaves that college no student.
C12_InvalidBodyRejected ==
    \A body \in Bodies :
        LET r == postStudents(variant, colleges, students, body, clock) IN
        /\ (Falsy(body.collegeName) \/ body.students.tag # "array") =>
                /\ r.status = 400
                /\ r.error.text = "Invalid data format"
                /\ r.colleges = colleges
                /\ r.students = students
        /\ (~Falsy(body.collegeName) /\ body.students = Array(<<>>)) =>
                /\ r.status = 200
                /\ ByCollege(r.students, body.collegeName) = <<>>
                /\ Len(RecordsOf(r.colleges, body.collegeName)) = 1
                /\ RecordsOf(r.colleges, body.collegeName)[1].studentCount = 0
                /\ Len(r.students) = Len(students) - Len(ByCollege(students, body.collegeName))

\* a college that is registered has later uploaded an empty array while the
\* other college's students are stored, and the invalid bodies are all refused
C12_Witness ==
    /\ \E i \in 1..Len(colleges) :
        /\ colleges[i].registeredAt < colleges[i].lastUpdated
        /\ colleges[i].studentCount = 0
        /\ lastUpload[colleges[i].name].items = <<>>
        /\ ByCollege(students, colleges[i].name) = <<>>
    /\ Len(students) > 0
    /\ \A body \in InvalidBodies :
        postStudents(variant, colleges, students, body, clock).status = 400

\* the breakdowns of the stats object
Breakdowns == {"sportBreakdown", "courseBreakdown", "yearBreakdown", "collegeBreakdown"}

\* C21: DELETE /api/clear leaves colleges and students empty and reports as
\* clearedColleges and clearedStudents the lengths the arrays had just before the
\* call; a GET /api/stats answered from the arrays it leaves reports zero
\* totals and empty breakdowns.
C21_ClearEmptiesAndReports ==
    variant = "replace" =>
        LET r == clearData(colleges, students)
            stats == getStats(r.colleges, r.students)
        IN  /\ getColleges(r.colleges) = <<>>
            /\ getStudents(r.students) = <<>>
            /\ r.clearedColleges = Len(colleges)
            /\ r.clearedStudents = Len(students)
            /\ stats.totalColleges = 0
            /\ stats.totalStudents = 0
            /\ \A b \in Breakdowns : DOMAIN stats[b] = {}
            /\ (cleared /\ lastUpload = <<>>) =>
                    getStats(colleges, students) = stats

\* a clear of stored data has happened and no upload was accepted since
C21_Witness ==
    /\ variant = "replace"
    /\ cleared
    /\ lastUpload = <<>>
    /\ colleges = <<>>
    /\ students = <<>>
    /\ clock > 0

\* the sum of the studentCount fields of the college records
SumStudentCount(cs) ==
    LET sum[i \in 0..Len(cs)] ==
            IF i = 0 THEN 0 ELSE sum[i - 1] + cs[i].studentCount
    IN  sum[Len(cs)]

\* C22: after any sequence of POST /api/students and DELETE /api/clear, every
\* college record's studentCount is the number of stored students whose
\* collegeName is that college's name, and the studentCount values of all the
\* college records sum to students.length.
C22_StudentCountMatchesStudents ==
    /\ \A i \in 1..Len(getColleges(colleges)) :
        colleges[i].studentCount = Len(ByCollege(getStudents(students), colleges[i].name))
    /\ SumStudentCount(getColleges(colleges)) = Len(getStudents(students))

\* two colleges hold different numbers of students, one of them after a second
\* upload that changed its number
C22_Witness ==
    /\ Len(colleges) = 2
    /\ colleges[1].studentCount = 1
    /\ colleges[2].studentCount = 2
    /\ colleges[1].registeredAt < colleges[1].lastUpdated
    /\ lastUpload[colleges[1].name].at = colleges[1].lastUpdated
    /\ Len(students) = 3

\* C23 as stated: after any sequence of uploads, every stored student's
\* collegeEmail equals the email of the college record with the same name,
\* including after a college has uploaded again with a different
\* collegeInfo.email.
C23_Original ==
    \A i \in 1..Len(getStudents(students)), j \in 1..Len(getColleges(colleges)) :
        colleges[j].name = students[i].collegeName =>
            students[i].collegeEmail = colleges[j].email

(***************************************************************************)
(* Backend: properties of the S3 endpoints                                 *)
(***************************************************************************)
\* C13 as stated: when AWS_ACCESS_KEY_ID or AWS_SECRET_ACCESS_KEY is not set, GET
\* /api/test-s3, POST /api/export-to-s3 and GET /api/backups each answer
\* success:false without invoking any S3 operation, and the students, colleges
\* and stats endpoints answer from the stored data as they do with S3 configured.
C13_Original ==
    ~awsEnv =>
        /\ \A outcome \in Outcomes :
            /\ ~testS3(s3gen, awsEnv, outcome).resp.success
            /\ testS3(s3gen, awsEnv, outcome).ops = {}
            /\ ~getBackups(s3gen, awsEnv, outcome).resp.success
            /\ getBackups(s3gen, awsEnv, outcome).ops = {}
        /\ exportToS3(s3gen, awsEnv).resp # NoResponse
        /\ ~exportToS3(s3gen, awsEnv).resp.success
        /\ exportOps(s3gen, awsEnv) = {}
        /\ ~s3job.resp.success
        /\ ~inFlight(s3job)
        /\ \A c \in Names :
            ByCollege(getStudents(students), c) =
                IF c \in DOMAIN lastUpload
                THEN studentsWithCollege(lastUpload[c].items, c,
                                         lastUpload[c].email, lastUpload[c].at)
                ELSE <<>>
        /\ getStats(colleges, students).totalStudents = Len(students)
        /\ getStats(colleges, students).totalColleges = Len(getColleges(colleges))

\* C16: POST /api/export-to-s3 answers success:true only when both the JSON and
\* the CSV object were stored; when either upload fails it answers 500 with
\* success:false; and no step of it changes colleges or students.
C16_ExportAllOrError ==
    /\ [](/\ s3job.resp.success =>
                /\ s3job.json = "stored"
                /\ s3job.csv = "stored"
                /\ s3job.resp.status = 200
          /\ (s3job.json = "failed" \/ s3job.csv = "failed") =>
                s3job.resp = Response(500, FALSE))
    /\ [][s3job' # s3job => (colleges' = colleges /\ students' = students)]_vars

\* an export of stored students has answered success:true
C16_Witness ==
    /\ s3job.resp = Response(200, TRUE)
    /\ s3job.json = "stored"
    /\ s3job.csv = "stored"
    /\ Len(students) > 0

(***************************************************************************)
(* EmailService: properties                                                *)
(***************************************************************************)
\* the methods a sendOTP call has attempted, in order
Methods(m) == [i \in 1..Len(m.tried) |-> m.tried[i].method]

\* an attempt that delivered the email
Delivered(t) ==
    \/ t.method = "emailjs" /\ t.outcome = "200"
    \/ t.method = "backend" /\ t.outcome = "ok"

C15_EmailJSFirstThenBackend ==
    mailer = "emailjs" =>
        /\ \A i \in 1..Len(mail.tried) :
            /\ mail.tried[i].method = "emailjs" => (i = 1 /\ isEmailJSConfigured(ejConfig))
            /\ mail.tried[i].method = "backend" =>
                IF isEmailJSConfigured(ejConfig)
                THEN i = 2 /\ mail.tried[1].method = "emailjs" /\ ~Delivered(mail.tried[1])
                ELSE i = 1
        /\ mail.pc = "backend" =>
                Methods(mail) = IF isEmailJSConfigured(ejConfig) THEN <<"emailjs">> ELSE <<>>
        /\ mail.pc = "emailjs" => (isEmailJSConfigured(ejConfig) /\ mail.tried = <<>>)
        /\ mail.pc = "done" =>
            /\ Len(mail.tried) >= 1
            /\ mail.result \in {"true", "false"}
            /\ mail.result = "true" <=> \E i \in 1..Len(mail.tried) : Delivered(mail.tried[i])
            /\ mail.result = "false" <=> \A i \in 1..Len(mail.tried) : ~Delivered(mail.tried[i])

\* EmailJS is configured, its send failed, and the backend delivered the email
C15_Witness ==
    /\ mailer = "emailjs"
    /\ isEmailJSConfigured(ejConfig)
    /\ mail.pc = "done"
    /\ mail.tried = <<Tried("emailjs", "other"), Tried("backend", "ok")>>
    /\ mail.result = "true"
====
